---- MODULE Spec2Model ----
(***************************************************************************)
(* Chat widget: the chat view (handleSend, onMounted, handleLogout, the    *)
(* input form bindings, renderMarkdown with the table wrapper hooks), the  *)
(* chat service (ChatService.sendMessage) and the chat store that sits     *)
(* between them.                                                           *)
(*                                                                         *)
(* Scheduling is the browser event loop: a UI event or a network           *)
(* completion is one task; the continuations of awaited promises are       *)
(* microtasks that run to completion before the next task starts.          *)
(***************************************************************************)
EXTENDS Integers, Sequences, FiniteSets, TLC

\* ------------------------------------------------------------------ bounds
MaxLen    == 2    \* longest text typed into the input box
MaxThread == 5    \* longest thread explored
MaxBlocks == 3    \* longest markdown content (in blocks) rendered
MaxCols   == 2    \* widest markdown table rendered
MaxRows   == 1    \* most body rows of a markdown table rendered

\* ------------------------------------------------------------------ values
Undefined == "undefined"

\* Characters a user can type; " " is whitespace for String.prototype.trim.
Chars == {" ", "a"}

IsSpace(c) == c \in {" ", "\t", "\n"}

SeqsUpTo(S, n) == UNION {[1..k -> S] : k \in 0..n}

\* Values of the input box.
Inputs == SeqsUpTo(Chars, MaxLen)

RECURSIVE TrimStart(_)
TrimStart(s) ==
    IF s = <<>> THEN <<>>
    ELSE IF IsSpace(Head(s)) THEN TrimStart(Tail(s)) ELSE s

RECURSIVE TrimEnd(_)
TrimEnd(s) ==
    IF s = <<>> THEN <<>>
    ELSE IF IsSpace(s[Len(s)]) THEN TrimEnd(SubSeq(s, 1, Len(s) - 1)) ELSE s

\* String.prototype.trim
Trim(s) == TrimEnd(TrimStart(s))

\* The greeting pushed by onMounted.
Greeting == <<"¡Hola! Soy el Agente de la Prefectura del Guayas. ¿En qué puedo ayudarte hoy?">>

\* The fixed failure notice the store appends when the service call fails.
ErrorNotice == <<"error notice">>

\* Bodies the chat endpoint can answer with (ChatResponse).
Replies ==
    { [message |-> "m", response |-> <<"R1">>, provider |-> "P1"],
      [message |-> "m", response |-> <<"R2">>, provider |-> Undefined] }

\* Errors the HTTP layer can reject with.
Errors == {"NetworkError", "Http500"}

\* Texts other callers hand to the store, which checks none of them.
DirectTexts == {<<"a">>}

\* Provider argument the store hands to the service.
ProviderArgs == {Undefined, "P1"}

NoOutcome == [kind |-> "pending", data |-> Undefined, error |-> Undefined]

\* What this.post settles with: an HTTP response carrying a body, or an error.
HttpOk(d)   == [kind |-> "ok", data |-> d, error |-> Undefined]
HttpFail(e) == [kind |-> "fail", data |-> Undefined, error |-> e]
HttpOutcomes == {HttpOk(d) : d \in Replies} \cup {HttpFail(e) : e \in Errors}

\* ------------------------------------------------------------------- state
VARIABLES
    thread,      \* chatStore.messages
    isTyping,    \* chatStore.isTyping
    newMessage,  \* the view's newMessage ref (v-model of the textarea)
    mounted,     \* whether the chat view is mounted
    isAuth,      \* localStorage 'isAuth'
    calls,       \* store sendMessage invocations that have not finished
    event,       \* the UI event handled by the last step, if it was one
    uncaught,    \* whether a handleSend promise has rejected
    direct,      \* whether a caller other than the view has called the store
    mdContent,   \* the message content handed to renderMarkdown
    mdHtml,      \* the output of renderMarkdown for it
    mdRendered   \* whether renderMarkdown has run on mdContent

vars == <<thread, isTyping, newMessage, mounted, isAuth, calls, event,
          uncaught, direct, mdContent, mdHtml, mdRendered>>

chatVars == <<thread, isTyping, newMessage, mounted, isAuth, calls, event,
              uncaught, direct>>
mdVars == <<mdContent, mdHtml, mdRendered>>

\* event.sent: whether the handler of the event called the store.
NoEvent == [type |-> "none", shift |-> FALSE, sent |-> FALSE]
UIEvent(t, s, sent) == [type |-> t, shift |-> s, sent |-> sent]

\* Message objects of the thread. The timestamp field (Date.now()) is left
\* out: the script reads it nowhere, it only feeds the list key and the
\* displayed time.
UserMsg(text) ==
    [role |-> "user", content |-> text, provider |-> Undefined]
AssistantMsg(content, provider) ==
    [role |-> "assistant", content |-> content, provider |-> provider]
GreetingMsg == AssistantMsg(Greeting, Undefined)

\* No continuation of an awaited promise is pending: the event loop is
\* between tasks, so a UI event or a network completion can be delivered.
Stable == \A i \in DOMAIN calls : calls[i].pc = "post"


\* Messages whose assistant reply (or error notice) is still to be appended.
Pending == Cardinality({i \in DOMAIN calls : calls[i].pc \in {"post", "svc", "store"}})

\* The model stops starting exchanges that would outgrow MaxThread.
CanGrow == Len(thread) + Pending + 2 <= MaxThread

\* ------------------------------------------------------------ chat service
\* The request ChatService.sendMessage issues: this.post('chat', {...}).
ServicePost(message, history, provider) ==
    [url |-> "chat",
     body |-> [message |-> message, history |-> history, provider |-> provider]]

NoResult == [kind |-> "pending", value |-> Undefined, error |-> Undefined]

\* Mutant: the catch block swallows the error and returns nothing.
ServiceSettleSwallow(http) ==
    IF http.kind = "ok"
    THEN [kind |-> "return", value |-> http.data, error |-> Undefined]
    ELSE [kind |-> "return",
          value |-> [message |-> Undefined, response |-> <<Undefined>>,
                     provider |-> Undefined],
          error |-> Undefined]

\* Mutant: the try block returns the response object, not its data.
ServiceSettleWholeResponse(http) ==
    IF http.kind = "ok"
    THEN [kind |-> "return",
          value |-> [message |-> Undefined, response |-> <<Undefined>>,
                     provider |-> Undefined],
          error |-> Undefined]
    ELSE [kind |-> "throw", value |-> Undefined, error |-> http.error]

\* How ChatService.sendMessage settles once this.post has settled:
\* `return response.data` in the try block, `throw error` in the catch block.
ServiceSettle(http) ==
    IF http.kind = "ok"
    THEN [kind |-> "return", value |-> http.data, error |-> Undefined]
    ELSE [kind |-> "throw", value |-> Undefined, error |-> http.error]

\* Mutant: a failed POST is issued once more before the call settles.
ServiceResumeRetry(c) ==
    IF c.http.kind = "fail" /\ Len(c.posts) < 2
    THEN [c EXCEPT !.posts = Append(@, @[1]), !.http = NoOutcome, !.pc = "post"]
    ELSE [c EXCEPT !.ret = ServiceSettle(c.http), !.pc = "store"]

\* The continuation of ChatService.sendMessage after `await this.post(...)`:
\* the call settles with ServiceSettle and issues no further request.
ServiceResume(c) ==
    [c EXCEPT !.ret = ServiceSettle(c.http), !.pc = "store"]

\* -------------------------------------------------------------- chat store
\* The history argument of the service call: the thread before this exchange.
History(t) == [i \in DOMAIN t |-> [role |-> t[i].role, content |-> t[i].content]]

\* A fresh store call: its service call has issued its POST and awaits it.
NewCall(text, origin, provider) ==
    [text    |-> text,
     origin  |-> origin,
     args    |-> [message |-> text, history |-> History(thread),
                  provider |-> provider],
     posts   |-> <<ServicePost(text, History(thread), provider)>>,
     pc      |-> "post",
     http    |-> NoOutcome,
     ret     |-> NoResult,
     settled |-> "pending"]

\* chatStore.sendMessage up to its await: push the user message, raise the
\* waiting flag, call the chat service.
StoreSendMessage(text, origin, provider) ==
    /\ thread' = Append(thread, UserMsg(text))
    /\ isTyping' = TRUE
    /\ calls' = Append(calls, NewCall(text, origin, provider))

\* The assistant message the store appends for a settled service call.
StoreReply(ret) ==
    IF ret.kind = "return"
    THEN AssistantMsg(ret.value.response, ret.value.provider)
    ELSE AssistantMsg(ErrorNotice, Undefined)

\* chatStore.sendMessage after its await: append the reply or the failure
\* notice, drop the waiting flag (cleanup on both paths), fulfil its promise.
StoreResume(i) ==
    /\ i \in DOMAIN calls
    /\ calls[i].pc = "store"
    /\ thread' = Append(thread, StoreReply(calls[i].ret))
    /\ isTyping' = FALSE
    /\ calls' = [calls EXCEPT ![i].settled = "fulfilled", ![i].pc = "caller"]
    /\ event' = NoEvent
    /\ UNCHANGED <<newMessage, mounted, isAuth, uncaught, direct, mdVars>>

\* Another caller of chatStore.sendMessage than the view: the store checks
\* neither the text nor the waiting flag.
DirectSend(text, provider) ==
    /\ Stable
    /\ CanGrow
    /\ StoreSendMessage(text, "direct", provider)
    /\ direct' = TRUE
    /\ event' = NoEvent
    /\ UNCHANGED <<newMessage, mounted, isAuth, uncaught, mdVars>>

\* ------------------------------------------------------------ HTTP layer
\* this.post settles: the endpoint answers, or the transport / status fails.
HttpSettle(i, outcome) ==
    /\ Stable
    /\ i \in DOMAIN calls
    /\ calls[i].pc = "post"
    /\ calls' = [calls EXCEPT ![i].http = outcome, ![i].pc = "svc"]
    /\ event' = NoEvent
    /\ UNCHANGED <<thread, isTyping, newMessage, mounted, isAuth, uncaught,
                   direct, mdVars>>

\* The microtask that resumes ChatService.sendMessage.
ServiceContinue(i) ==
    /\ i \in DOMAIN calls
    /\ calls[i].pc = "svc"
    /\ calls' = [calls EXCEPT ![i] = ServiceResume(calls[i])]
    /\ event' = NoEvent
    /\ UNCHANGED <<thread, isTyping, newMessage, mounted, isAuth, uncaught,
                   direct, mdVars>>

Remove(s, i) == [j \in 1..(Len(s) - 1) |-> IF j < i THEN s[j] ELSE s[j + 1]]

\* The caller's continuation after `await chatStore.sendMessage(text)`:
\* handleSend ends; a rejection would surface as an uncaught rejection.
CallerResume(i) ==
    /\ i \in DOMAIN calls
    /\ calls[i].pc = "caller"
    /\ uncaught' = (uncaught \/ calls[i].settled = "rejected")
    /\ calls' = Remove(calls, i)
    /\ event' = NoEvent
    /\ UNCHANGED <<thread, isTyping, newMessage, mounted, isAuth, direct, mdVars>>

\* --------------------------------------------------------------- chat view
\* :disabled of the textarea.
TextareaDisabled == isTyping

\* :disabled of the send button.
SendBtnDisabled == Trim(newMessage) = <<>> \/ isTyping

\* Mutant: handleSend without its guard.
handleSendUnguarded ==
    /\ CanGrow
    /\ newMessage' = <<>>
    /\ \E p \in ProviderArgs : StoreSendMessage(newMessage, "view", p)

\* Mutant: handleSend tests the raw input, not the trimmed one.
handleSendNoTrim ==
    IF newMessage = <<>> \/ isTyping
    THEN UNCHANGED <<thread, isTyping, newMessage, calls>>
    ELSE /\ CanGrow
         /\ newMessage' = <<>>
         /\ \E p \in ProviderArgs : StoreSendMessage(newMessage, "view", p)

\* Mutant: handleSend does not test the waiting flag.
handleSendNoTyping ==
    IF Trim(newMessage) = <<>>
    THEN UNCHANGED <<thread, isTyping, newMessage, calls>>
    ELSE /\ CanGrow
         /\ newMessage' = <<>>
         /\ \E p \in ProviderArgs : StoreSendMessage(newMessage, "view", p)

\* handleSend up to its await.
handleSend ==
    IF Trim(newMessage) = <<>> \/ isTyping
    THEN UNCHANGED <<thread, isTyping, newMessage, calls>>
    ELSE /\ CanGrow
         /\ newMessage' = <<>>
         /\ \E p \in ProviderArgs : StoreSendMessage(newMessage, "view", p)

\* <form @submit.prevent="handleSend">: a submit event reaches the form.
FormSubmit ==
    /\ mounted /\ Stable
    /\ handleSend
    /\ event' = UIEvent("submit", FALSE, calls' # calls)
    /\ UNCHANGED <<mounted, isAuth, uncaught, direct, mdVars>>

\* A click on the send button, which submits the form unless it is disabled.
ClickSend ==
    /\ mounted /\ Stable
    /\ ~SendBtnDisabled
    /\ handleSend
    /\ event' = UIEvent("click", FALSE, calls' # calls)
    /\ UNCHANGED <<mounted, isAuth, uncaught, direct, mdVars>>

\* <textarea @keydown.enter.prevent="handleSend">: the `enter` key modifier
\* matches the key alone, whatever system modifier keys are held.
KeydownEnter(shift) ==
    /\ mounted /\ Stable
    /\ handleSend
    /\ event' = UIEvent("enter", shift, calls' # calls)
    /\ UNCHANGED <<mounted, isAuth, uncaught, direct, mdVars>>

\* v-model="newMessage": the user edits the textarea, unless it is disabled.
TypeText(t) ==
    /\ mounted /\ Stable
    /\ ~TextareaDisabled
    /\ t # newMessage
    /\ newMessage' = t
    /\ event' = UIEvent("input", FALSE, FALSE)
    /\ UNCHANGED <<thread, isTyping, mounted, isAuth, calls, uncaught, direct, mdVars>>

\* Mutant: onMounted seeds the greeting without looking at the thread.
onMountedAlways ==
    /\ ~mounted /\ isAuth /\ Stable
    /\ mounted' = TRUE
    /\ newMessage' = <<>>
    /\ thread' = Append(thread, GreetingMsg)
    /\ event' = UIEvent("mount", FALSE, FALSE)
    /\ UNCHANGED <<isTyping, isAuth, calls, uncaught, direct, mdVars>>

\* onMounted: seed the greeting when the thread is empty.
onMounted ==
    /\ ~mounted /\ isAuth /\ Stable
    /\ mounted' = TRUE
    /\ newMessage' = <<>>
    /\ thread' = IF Len(thread) = 0 THEN Append(thread, GreetingMsg) ELSE thread
    /\ event' = UIEvent("mount", FALSE, FALSE)
    /\ UNCHANGED <<isTyping, isAuth, calls, uncaught, direct, mdVars>>

\* handleLogout: clear the auth flag and leave the view.
handleLogout ==
    /\ mounted /\ Stable
    /\ isAuth' = FALSE
    /\ mounted' = FALSE
    /\ event' = UIEvent("logout", FALSE, FALSE)
    /\ UNCHANGED <<thread, isTyping, newMessage, calls, uncaught, direct, mdVars>>

\* The login page (outside this view) sets the auth flag the router reads.
Login ==
    /\ ~mounted /\ ~isAuth /\ Stable
    /\ isAuth' = TRUE
    /\ event' = NoEvent
    /\ UNCHANGED <<thread, isTyping, newMessage, mounted, calls, uncaught,
                   direct, mdVars>>


\* ------------------------------------------------------- markdown rendering
\* A message content is a sequence of blocks: a paragraph, a pipe table of
\* some columns and body rows, a fenced code block, or a block of raw HTML
\* (here a hand-written table, or a plain div).
RawTable ==
    << <<"open", "table">>, <<"open", "tr">>, <<"open", "td">>, <<"text", "x">>,
       <<"close", "td">>, <<"close", "tr">>, <<"close", "table">> >>
RawDiv == << <<"open", "div">>, <<"text", "x">>, <<"close", "div">> >>

Blocks ==
    {[kind |-> "para", cols |-> 0, rows |-> 0, raw |-> <<>>],
     [kind |-> "fence", cols |-> 0, rows |-> 0, raw |-> <<>>]}
    \cup {[kind |-> "table", cols |-> c, rows |-> r, raw |-> <<>>] :
             c \in 1..MaxCols, r \in 0..MaxRows}
    \cup {[kind |-> "html", cols |-> 0, rows |-> 0, raw |-> h] : h \in {RawTable, RawDiv}}

Contents == SeqsUpTo(Blocks, MaxBlocks)

RECURSIVE Concat(_)
Concat(ss) == IF ss = <<>> THEN <<>> ELSE Head(ss) \o Concat(Tail(ss))

Repeat(s, n) == Concat([i \in 1..n |-> s])

\* Tokens of the formatter.
Tok(type, tag, nesting) ==
    [type |-> type, tag |-> tag, nesting |-> nesting, content |-> <<>>]
LeafTok(type, content) ==
    [type |-> type, tag |-> "", nesting |-> 0, content |-> content]

RowTokens(cell, cols) ==
    <<Tok("tr_open", "tr", 1)>>
    \o Repeat(<<Tok(cell \o "_open", cell, 1), LeafTok("inline", << <<"text", "c">> >>),
                Tok(cell \o "_close", cell, -1)>>, cols)
    \o <<Tok("tr_close", "tr", -1)>>

\* The block parser of the formatter, with html: true (raw HTML blocks are
\* kept as html_block tokens).
ParseBlock(b) ==
    CASE b.kind = "para" ->
           <<Tok("paragraph_open", "p", 1), LeafTok("inline", << <<"text", "t">> >>),
             Tok("paragraph_close", "p", -1)>>
      [] b.kind = "fence" ->
           <<LeafTok("fence", << <<"text", "| a |">> >>)>>
      [] b.kind = "table" ->
           <<Tok("table_open", "table", 1), Tok("thead_open", "thead", 1)>>
           \o RowTokens("th", b.cols)
           \o <<Tok("thead_close", "thead", -1)>>
           \o (IF b.rows > 0
               THEN <<Tok("tbody_open", "tbody", 1)>>
                    \o Repeat(RowTokens("td", b.cols), b.rows)
                    \o <<Tok("tbody_close", "tbody", -1)>>
               ELSE <<>>)
           \o <<Tok("table_close", "table", -1)>>
      [] b.kind = "html" ->
           <<LeafTok("html_block", b.raw)>>

Parse(content) == Concat([i \in DOMAIN content |-> ParseBlock(content[i])])

\* self.renderToken: the plain opening or closing tag of a token.
renderToken(tok) ==
    IF tok.nesting = 1 THEN << <<"open", tok.tag>> >> ELSE << <<"close", tok.tag>> >>

\* '<div class="table-container">' and the '</div>' that closes it.
WrapperOpen  == <<"open", "div.table-container">>
WrapperClose == <<"close", "div">>

\* The formatter defines no table_open / table_close rule of its own, so
\* both defaults are the renderToken fallbacks.
defaultRender(tok) == renderToken(tok)
defaultTableClose(tok) == renderToken(tok)

\* md.renderer.rules.table_open
table_open(tok) == <<WrapperOpen>> \o defaultRender(tok)

\* Mutant: the closing hook forgets the '</div>'.
table_closeNoDiv(tok) == defaultTableClose(tok)

\* md.renderer.rules.table_close
table_close(tok) == defaultTableClose(tok) \o <<WrapperClose>>

\* The renderer: a token goes through the rule of its type, or renderToken.
RenderTok(tok) ==
    CASE tok.type = "table_open"  -> table_open(tok)
      [] tok.type = "table_close" -> table_close(tok)
      [] tok.type = "inline"      -> tok.content
      [] tok.type = "html_block"  -> tok.content
      [] tok.type = "fence"       ->
           << <<"open", "pre">>, <<"open", "code">> >> \o tok.content
           \o << <<"close", "code">>, <<"close", "pre">> >>
      [] OTHER -> renderToken(tok)

\* renderMarkdown = md.render(content)
renderMarkdown(content) ==
    LET toks == Parse(content)
    IN  Concat([i \in DOMAIN toks |-> RenderTok(toks[i])])

\* v-html="renderMarkdown(msg.content)"
RenderMessage ==
    /\ ~mdRendered
    /\ mdHtml' = renderMarkdown(mdContent)
    /\ mdRendered' = TRUE
    /\ UNCHANGED <<mdContent, chatVars>>

\* ----------------------------------------------------------- specifications
InitChat ==
    /\ thread = <<>>
    /\ isTyping = FALSE
    /\ newMessage = <<>>
    /\ mounted = FALSE
    /\ isAuth = FALSE
    /\ calls = <<>>
    /\ event = NoEvent
    /\ uncaught = FALSE
    /\ direct = FALSE

Init ==
    /\ InitChat
    /\ mdContent = <<>>
    /\ mdHtml = <<>>
    /\ mdRendered = FALSE

\* The steps of the exchanges in progress and of the clock.
Progress ==
    \/ \E i \in DOMAIN calls : \E o \in HttpOutcomes : HttpSettle(i, o)
    \/ \E i \in DOMAIN calls : ServiceContinue(i)
    \/ \E i \in DOMAIN calls : StoreResume(i)
    \/ \E i \in DOMAIN calls : CallerResume(i)

\* The view's events.
ViewEvents ==
    \/ FormSubmit
    \/ ClickSend
    \/ \E shift \in BOOLEAN : KeydownEnter(shift)
    \/ \E t \in Inputs : TypeText(t)
    \/ onMounted
    \/ handleLogout
    \/ Login

\* Every send goes through the view's handleSend.
NextView == ViewEvents \/ Progress

SpecView == Init /\ [][NextView]_vars

\* The store is also called by other code paths.
Next ==
    \/ ViewEvents
    \/ Progress
    \/ \E t \in DirectTexts : \E p \in ProviderArgs : DirectSend(t, p)

Spec == Init /\ [][Next]_vars


\* renderMarkdown on every bounded message content.
InitMd ==
    /\ InitChat
    /\ mdContent \in Contents
    /\ mdHtml = <<>>
    /\ mdRendered = FALSE

NextMd == RenderMessage

SpecMd == InitMd /\ [][NextMd]_vars


\* ------------------------------------------------------------------ claims
\* The events whose handler is handleSend.
SubmitTypes == {"submit", "click", "enter"}

\* The store calls whose service call the store still awaits.
InFlight == {i \in DOMAIN calls : calls[i].pc \in {"post", "svc", "store"}}

\* The store call, if any, whose await the store resumes in this step.
Ends(i) ==
    /\ i \in DOMAIN calls
    /\ calls[i].pc = "store"
    /\ i \in DOMAIN calls'
    /\ calls'[i].pc = "caller"

\* The index of a call's user message in the thread.
UserAt(c) == Len(c.args.history) + 1

\* C1: a handleSend on an input whose trimmed value is empty calls the store
\* not at all: no call, no request, thread and waiting flag unchanged.
C1_EmptyInputNeverSends ==
    [][(event'.type \in SubmitTypes /\ Trim(newMessage) = <<>>)
          => (calls' = calls /\ thread' = thread /\ isTyping' = isTyping)]_vars

\* C1 witness: Enter or submit on a whitespace-only input, while not waiting,
\* has been handled and nothing was sent.
C1_Witness ==
    /\ event.type \in SubmitTypes
    /\ ~event.sent
    /\ newMessage # <<>>
    /\ Trim(newMessage) = <<>>
    /\ ~isTyping
    /\ calls = <<>>

\* C2: while the waiting flag is true a handleSend is a no-op for any input:
\* the store is not called and the thread does not grow.
C2_SubmitWhileWaitingIsNoOp ==
    [][(event'.type \in SubmitTypes /\ isTyping)
          => (calls' = calls /\ thread' = thread /\ newMessage' = newMessage)]_vars

\* C2 witness: a submit with a non-blank input was handled while waiting and
\* sent nothing.
C2_Witness ==
    /\ event.type \in SubmitTypes
    /\ ~event.sent
    /\ isTyping
    /\ Trim(newMessage) # <<>>

\* C3 as stated: in every reachable state, whatever the store's callers, the
\* waiting flag is true exactly when a request is in flight.
C3_FlagIffInFlight == isTyping <=> (InFlight # {})

\* C3 amended: as long as every send went through the view's handleSend, the
\* waiting flag is true exactly when a request is in flight.
C3_FlagIffInFlightViewOnly == ~direct => (isTyping <=> (InFlight # {}))

\* C3 witness: a view-driven exchange has just ended and the flag is down.
C3_Witness ==
    /\ ~direct
    /\ ~isTyping
    /\ Len(calls) = 1
    /\ calls[1].pc = "caller"

\* C4: a failed request ends with exactly one assistant message carrying the
\* fixed error notice appended after the exchange's user message, the waiting
\* flag false, and the store's promise fulfilled (nothing thrown to handleSend).
C4_FailureAppendsErrorNotice ==
    [][/\ \A i \in DOMAIN calls :
            (Ends(i) /\ calls[i].http.kind = "fail") =>
               /\ thread' = Append(thread, AssistantMsg(ErrorNotice, Undefined))
               /\ thread[UserAt(calls[i])] = UserMsg(calls[i].text)
               /\ isTyping' = FALSE
               /\ calls'[i].settled = "fulfilled"
       /\ uncaught' = FALSE]_vars

\* C4 witness: a view-driven exchange whose request failed has ended.
C4_Witness ==
    /\ Len(calls) = 1
    /\ calls[1].pc = "caller"
    /\ calls[1].origin = "view"
    /\ calls[1].http.kind = "fail"
    /\ thread[Len(thread)] = AssistantMsg(ErrorNotice, Undefined)
    /\ ~isTyping

\* C5: an exchange appends the user message with the submitted text in the
\* step that issues the request, and on success appends one assistant message
\* with the reply's response and provider; with the view as only caller the
\* two are adjacent and the thread has grown by exactly two.
C5_SuccessGrowsByTwo ==
    [][/\ (event'.type \in SubmitTypes /\ event'.sent) =>
             /\ thread' = Append(thread, UserMsg(newMessage))
             /\ Len(calls') = Len(calls) + 1
             /\ calls'[Len(calls')].pc = "post"
             /\ calls'[Len(calls')].args.message = newMessage
       /\ \A i \in DOMAIN calls :
            (Ends(i) /\ calls[i].http.kind = "ok") =>
               /\ thread' = Append(thread,
                                   AssistantMsg(calls[i].http.data.response,
                                                calls[i].http.data.provider))
               /\ thread[UserAt(calls[i])] = UserMsg(calls[i].text)
               /\ ~direct => Len(thread') = Len(calls[i].args.history) + 2]_vars

\* C5 witness: a view-driven exchange has ended with the reply R1 of P1.
C5_Witness ==
    /\ Len(calls) = 1
    /\ calls[1].pc = "caller"
    /\ calls[1].origin = "view"
    /\ calls[1].http.kind = "ok"
    /\ Len(thread) >= 2
    /\ thread[Len(thread) - 1] = UserMsg(calls[1].text)
    /\ thread[Len(thread)] = AssistantMsg(<<"R1">>, "P1")

\* C6: every service call has issued exactly one POST to 'chat' carrying its
\* message, history and provider; once settled it has returned the response
\* body unchanged or thrown the very error of the POST.
C6_ServiceIsPassThrough ==
    \A i \in DOMAIN calls :
        LET c == calls[i] IN
        /\ Len(c.posts) = 1
        /\ c.posts[1] = [url |-> "chat", body |-> c.args]
        /\ c.pc = "post" => c.http = NoOutcome
        /\ c.pc \in {"store", "caller"} =>
             /\ c.http.kind = "ok" =>
                  c.ret = [kind |-> "return", value |-> c.http.data,
                           error |-> Undefined]
             /\ c.http.kind = "fail" =>
                  c.ret = [kind |-> "throw", value |-> Undefined,
                           error |-> c.http.error]

\* C6 witness: a service call whose POST failed has thrown that error.
C6_Witness ==
    \E i \in DOMAIN calls :
        /\ calls[i].pc = "store"
        /\ calls[i].http = HttpFail("Http500")
        /\ calls[i].ret.kind = "throw"
        /\ calls[i].ret.error = "Http500"

Greetings(t) == {i \in DOMAIN t : t[i] = GreetingMsg}

\* C7: a mount appends the greeting exactly when the thread is empty and
\* otherwise leaves the thread alone; with the view as only caller the thread
\* of a mounted view holds exactly one greeting, as its first message.
C7_GreetingOnceAndFirst ==
    [][/\ (~mounted /\ mounted') =>
             thread' = IF thread = <<>> THEN <<GreetingMsg>> ELSE thread
       /\ mounted' => (thread' # <<>> /\ Greetings(thread') = {1})]_vars

\* C7 witness: the view was mounted again on a thread that already held the
\* greeting and an exchange.
C7_Witness ==
    /\ event.type = "mount"
    /\ mounted
    /\ Len(thread) >= 3
    /\ Greetings(thread) = {1}

\* C8: an Enter keypress with Shift held does not run handleSend: thread,
\* waiting flag and store calls are unchanged.
C8_ShiftEnterDoesNotSend ==
    [][(event'.type = "enter" /\ event'.shift)
          => (thread' = thread /\ isTyping' = isTyping /\ calls' = calls)]_vars

\* Positions of a piece in the rendered output.
At(out, piece) == {i \in DOMAIN out : out[i] = piece}

TableOpen  == <<"open", "table">>
TableClose == <<"close", "table">>

\* Every table of the output sits directly inside one wrapper, and wrappers
\* and tables pair off one-to-one.
Wrapped(out) ==
    /\ \A i \in At(out, TableOpen) : i > 1 /\ out[i - 1] = WrapperOpen
    /\ \A i \in At(out, TableClose) : i < Len(out) /\ out[i + 1] = WrapperClose
    /\ \A i \in At(out, WrapperOpen) : i < Len(out) /\ out[i + 1] = TableOpen
    /\ Cardinality(At(out, WrapperOpen)) = Cardinality(At(out, TableOpen))
    /\ Cardinality(At(out, TableClose)) = Cardinality(At(out, TableOpen))

MdTables(content) == {i \in DOMAIN content : content[i].kind = "table"}
RawHtml(content)  == {i \in DOMAIN content : content[i].kind = "html"}

\* One markdown table gives one wrapper around one table.
OneTableOneWrapper(content, out) ==
    Cardinality(MdTables(content)) = 1 =>
        /\ Cardinality(At(out, WrapperOpen)) = 1
        /\ Cardinality(At(out, TableOpen)) = 1
        /\ Cardinality(At(out, TableClose)) = 1

\* C9 as stated: for every content, every table of the output is enclosed in
\* a wrapper, and one markdown table yields one wrapper around one table.
C9_EveryTableWrapped ==
    mdRendered => (Wrapped(mdHtml) /\ OneTableOneWrapper(mdContent, mdHtml))

\* C9 amended: for every content without raw HTML blocks, every table of the
\* output is enclosed in a wrapper, wrappers and tables pair off one-to-one,
\* and one markdown table yields one wrapper around one table.
C9_MarkdownTablesWrapped ==
    (mdRendered /\ RawHtml(mdContent) = {}) =>
        /\ Wrapped(mdHtml)
        /\ OneTableOneWrapper(mdContent, mdHtml)
        /\ Cardinality(At(mdHtml, TableOpen)) = Cardinality(MdTables(mdContent))

\* C9 witness: a content of exactly one markdown table of the widest shape,
\* between other blocks, has been rendered.
C9_Witness ==
    /\ mdRendered
    /\ RawHtml(mdContent) = {}
    /\ Cardinality(MdTables(mdContent)) = 1
    /\ Len(mdContent) > 1
    /\ \E i \in MdTables(mdContent) : mdContent[i].cols = MaxCols
    /\ Cardinality(At(mdHtml, WrapperOpen)) = 1

\* C10: with the view as only caller, at most one request is in flight.
C10_OneRequestInFlight == Cardinality(InFlight) <= 1 /\ Len(calls) <= 1

\* C10 witness: a second handleSend ran while the first request was in flight
\* and did not reach the store.
C10_Witness ==
    /\ event.type \in SubmitTypes
    /\ ~event.sent
    /\ isTyping
    /\ Len(calls) = 1
    /\ calls[1].pc = "post"
    /\ calls[1].origin = "view"

====
